---- MODULE Spec2Model ----
(***************************************************************************)
(* A model of the jsweb secret scanner (pkg/scanner, pkg/utils,            *)
(* pkg/config): the Scanner object, CheckFileForSecrets, isAllowlisted,    *)
(* calculateEntropy, getCodeSnippet and PrintFindings.                     *)
(*                                                                         *)
(* Go strings are byte strings.  A string is modelled as a sequence of     *)
(* bytes; an ASCII byte is written as the one-character string that it     *)
(* encodes, and the two bytes of the UTF-8 encoding of U+00E9 are written  *)
(* "xC3" and "xA9".  len(s) is Len(s); ranging over a string decodes       *)
(* runes (DecodeRunes).                                                    *)
(*                                                                         *)
(* float64 entropies are modelled in fixed point, in thousandths of a bit. *)
(***************************************************************************)
EXTENDS Integers, Sequences, FiniteSets, TLC

VARIABLES
    config,     \* Scanner.config: [Rules, Allowlists, DisabledRules]
    findings,   \* Scanner.findings
    headers,    \* Scanner.headers
    cookies,    \* Scanner.cookies
    last,       \* history: the most recent operation, its inputs and its result
    ncalls      \* history: number of operations performed so far

vars == <<config, findings, headers, cookies, last, ncalls>>

(***************************************************************************)
(* Bounds of the model.                                                    *)
(***************************************************************************)
MaxCalls == 3
MaxFindings == 4

(***************************************************************************)
(* Bytes, runes and the strings package.                                   *)
(***************************************************************************)
LeadBytes == {"xC3"}
ContBytes == {"xA9"}
Whitespace == {" ", "\n", "\t", "\r"}

RECURSIVE DecodeRunes(_)
\* for _, r := range s: the runes of s.  A two-byte lead followed by a
\* continuation byte is one rune; a stray lead or continuation byte
\* decodes to the replacement rune.
DecodeRunes(s) ==
    IF s = <<>> THEN <<>>
    ELSE IF s[1] \in LeadBytes /\ Len(s) >= 2 /\ s[2] \in ContBytes
         THEN <<SubSeq(s, 1, 2)>> \o DecodeRunes(SubSeq(s, 3, Len(s)))
         ELSE IF s[1] \in LeadBytes \cup ContBytes
              THEN << <<"xFFFD">> >> \o DecodeRunes(Tail(s))
              ELSE << <<s[1]>> >> \o DecodeRunes(Tail(s))

\* strings.HasPrefix
HasPrefix(s, p) == Len(p) <= Len(s) /\ SubSeq(s, 1, Len(p)) = p

\* strings.HasSuffix
HasSuffix(s, p) == Len(p) <= Len(s) /\ SubSeq(s, Len(s) - Len(p) + 1, Len(s)) = p

\* strings.Index: the 0-based byte offset of the first occurrence, or -1
Index(s, sub) ==
    LET hits == {i \in 0..(Len(s) - Len(sub)) : SubSeq(s, i + 1, i + Len(sub)) = sub}
    IN  IF hits = {} THEN -1 ELSE CHOOSE i \in hits : \A j \in hits : i <= j

\* strings.Contains
StrContains(s, sub) == Index(s, sub) >= 0

RECURSIVE TrimLeft(_)
TrimLeft(s) == IF s # <<>> /\ s[1] \in Whitespace THEN TrimLeft(Tail(s)) ELSE s

RECURSIVE TrimRight(_)
TrimRight(s) ==
    IF s # <<>> /\ s[Len(s)] \in Whitespace THEN TrimRight(SubSeq(s, 1, Len(s) - 1)) ELSE s

\* strings.TrimSpace
TrimSpace(s) == TrimRight(TrimLeft(s))

RECURSIVE Split(_, _)
\* strings.Split(s, sep) for a one-byte separator
Split(s, sep) ==
    LET i == Index(s, <<sep>>)
    IN  IF i = -1 THEN <<s>>
        ELSE <<SubSeq(s, 1, i)>> \o Split(SubSeq(s, i + 2, Len(s)), sep)

RECURSIVE Join(_, _)
\* strings.Join(parts, sep) for a one-byte separator
Join(parts, sep) ==
    IF parts = <<>> THEN <<>>
    ELSE IF Len(parts) = 1 THEN parts[1]
    ELSE parts[1] \o <<sep>> \o Join(Tail(parts), sep)

\* utils.Contains
Contains(slice, item) == \E i \in 1..Len(slice) : slice[i] = item

(***************************************************************************)
(* Regular expressions.  The regexp package is modelled for the fragment   *)
(* the configurations below use: a pattern is a fixed-length sequence of   *)
(* byte classes with at most one capture group, or a pattern that does not *)
(* compile.  A class holds ASCII bytes, or is one literal UTF-8 byte.      *)
(*   [ok |-> compiles, atoms |-> <<class, ...>>, group |-> <<from, to>>]   *)
(* group is <<>> when the pattern has no capture group.                    *)
(***************************************************************************)
Lit(s) == [i \in 1..Len(s) |-> {s[i]}]

Re(atoms, group) == [ok |-> TRUE, atoms |-> atoms, group |-> group]

BadRegex == [ok |-> FALSE, atoms |-> <<>>, group |-> <<>>]

\* regexp.Compile: err == nil
Compiles(regex) == regex.ok

\* the pattern matches s at 0-based byte offset i
MatchAt(regex, s, i) ==
    /\ i + Len(regex.atoms) <= Len(s)
    /\ \A k \in 1..Len(regex.atoms) : s[i + k] \in regex.atoms[k]

\* re.MatchString: the pattern matches somewhere in s
MatchString(regex, s) == \E i \in 0..Len(s) : MatchAt(regex, s, i)

RECURSIVE MatchOffsets(_, _, _)
\* the offsets of the successive non-overlapping matches, scanning from offset i
MatchOffsets(regex, s, i) ==
    IF i + Len(regex.atoms) > Len(s) THEN <<>>
    ELSE IF MatchAt(regex, s, i)
         THEN <<i>> \o MatchOffsets(regex, s, i + Len(regex.atoms))
         ELSE MatchOffsets(regex, s, i + 1)

\* one element of FindAllStringSubmatch: the full match, then the group
Submatch(regex, s, i) ==
    LET full == SubSeq(s, i + 1, i + Len(regex.atoms))
    IN  IF regex.group = <<>> THEN <<full>>
        ELSE <<full, SubSeq(full, regex.group[1], regex.group[2])>>

\* re.FindAllStringSubmatch(s, -1)
FindAllStringSubmatch(regex, s) ==
    LET offs == MatchOffsets(regex, s, 0)
    IN  [k \in 1..Len(offs) |-> Submatch(regex, s, offs[k])]

(***************************************************************************)
(* calculateEntropy.  Log2Milli[n] is 1000 * log2(n); one term of the sum  *)
(* is -p * log2(p) with p = count / len(s), which is                       *)
(* count * (log2(len(s)) - log2(count)) / len(s).                          *)
(***************************************************************************)
Log2Milli ==
    <<0, 1000, 1585, 2000, 2322, 2585, 2807, 3000,
      3170, 3322, 3459, 3585, 3700, 3807, 3907, 4000,
      4087, 4170, 4248, 4322, 4392, 4459, 4524, 4585>>

Range(seq) == {seq[i] : i \in 1..Len(seq)}

RECURSIVE SumOver(_, _)
SumOver(S, f) ==
    IF S = {} THEN 0
    ELSE LET x == CHOOSE y \in S : TRUE
         IN  f[x] + SumOver(S \ {x}, f)

\* the term one entry of freq adds: probability is count over the divisor
EntropyTerm(count, divisor) ==
    (count * (Log2Milli[divisor] - Log2Milli[count])) \div divisor

calculateEntropy(s) ==
    IF Len(s) = 0 THEN 0
    ELSE LET runes == DecodeRunes(s)
             freq  == [r \in Range(runes) |->
                          Cardinality({i \in 1..Len(runes) : runes[i] = r})]
         IN  SumOver(DOMAIN freq, [r \in DOMAIN freq |-> EntropyTerm(freq[r], Len(s))])

(***************************************************************************)
(* isAllowlisted.                                                          *)
(***************************************************************************)
\* mutant: the target "line" is not known and falls back to the secret
RegexTargetOfNoLine(allowlist, match, secret, line) ==
    IF allowlist.RegexTarget = "match" THEN match ELSE secret

\* target := secret; "match" and "line" select the other two arguments
RegexTargetOf(allowlist, match, secret, line) ==
    IF allowlist.RegexTarget = "match" THEN match
    ELSE IF allowlist.RegexTarget = "line" THEN line
    ELSE secret

RECURSIVE RegexLoopBadMatches(_, _, _)
\* mutant: a regex that does not compile counts as a match
RegexLoopBadMatches(regexes, i, target) ==
    IF i > Len(regexes) THEN FALSE
    ELSE IF ~Compiles(regexes[i]) THEN TRUE
    ELSE IF MatchString(regexes[i], target) THEN TRUE
    ELSE RegexLoopBadMatches(regexes, i + 1, target)

RECURSIVE RegexLoopStopAtBad(_, _, _)
\* mutant: a regex that does not compile ends the loop
RegexLoopStopAtBad(regexes, i, target) ==
    IF i > Len(regexes) THEN FALSE
    ELSE IF ~Compiles(regexes[i]) THEN FALSE
    ELSE IF MatchString(regexes[i], target) THEN TRUE
    ELSE RegexLoopStopAtBad(regexes, i + 1, target)

RECURSIVE RegexLoop(_, _, _)
\* the loop over allowlist.Regexes: a regex that does not compile is
\* skipped, the first one that matches the target ends the loop
RegexLoop(regexes, i, target) ==
    IF i > Len(regexes) THEN FALSE
    ELSE IF ~Compiles(regexes[i]) THEN RegexLoop(regexes, i + 1, target)
    ELSE IF MatchString(regexes[i], target) THEN TRUE
    ELSE RegexLoop(regexes, i + 1, target)

RECURSIVE StopwordLoop(_, _, _)
\* the loop over allowlist.Stopwords, always against the secret
StopwordLoop(stopwords, i, secret) ==
    IF i > Len(stopwords) THEN FALSE
    ELSE IF StrContains(secret, stopwords[i]) THEN TRUE
    ELSE StopwordLoop(stopwords, i + 1, secret)

\* matchCount and totalChecks after both category checks of one allowlist
CheckCounts(allowlist, match, secret, line) ==
    LET reCfg == Len(allowlist.Regexes) > 0
        swCfg == Len(allowlist.Stopwords) > 0
        reHit == reCfg /\ RegexLoop(allowlist.Regexes, 1,
                                    RegexTargetOf(allowlist, match, secret, line))
        swHit == swCfg /\ StopwordLoop(allowlist.Stopwords, 1, secret)
    IN  [matchCount  |-> (IF reHit THEN 1 ELSE 0) + (IF swHit THEN 1 ELSE 0),
         totalChecks |-> (IF reCfg THEN 1 ELSE 0) + (IF swCfg THEN 1 ELSE 0)]

\* mutant: the targetRules of a global allowlist are ignored
GlobalSkippedNever(allowlist, rule) == FALSE

\* a global allowlist is skipped when it names target rules and not this one
GlobalSkipped(allowlist, rule) ==
    Len(allowlist.TargetRules) > 0 /\ ~Contains(allowlist.TargetRules, rule.ID)

\* mutant: a global allowlist wants every configured category, like "AND"
GlobalDecisionAll(counts) ==
    counts.totalChecks > 0 /\ counts.matchCount = counts.totalChecks

\* a global allowlist returns true on any category match
GlobalDecision(counts) == counts.matchCount > 0

RECURSIVE GlobalLoop(_, _, _, _, _, _)
GlobalLoop(allowlists, i, match, secret, line, rule) ==
    IF i > Len(allowlists) THEN FALSE
    ELSE IF GlobalSkipped(allowlists[i], rule)
         THEN GlobalLoop(allowlists, i + 1, match, secret, line, rule)
    ELSE IF GlobalDecision(CheckCounts(allowlists[i], match, secret, line)) THEN TRUE
    ELSE GlobalLoop(allowlists, i + 1, match, secret, line, rule)

\* mutant: the condition is ignored, every rule allowlist is an OR
ConditionDecisionOrOnly(condition, counts) == counts.matchCount > 0

\* a rule allowlist: "AND" wants every configured category, anything else is OR
\* mutant: under AND, totalChecks > 0 is not required
ConditionDecisionNoTotal(condition, counts) ==
    IF condition = "AND"
    THEN counts.matchCount = counts.totalChecks
    ELSE counts.matchCount > 0

ConditionDecision(condition, counts) ==
    IF condition = "AND"
    THEN counts.totalChecks > 0 /\ counts.matchCount = counts.totalChecks
    ELSE counts.matchCount > 0

RECURSIVE RuleLoop(_, _, _, _, _)
RuleLoop(allowlists, i, match, secret, line) ==
    IF i > Len(allowlists) THEN FALSE
    ELSE IF ConditionDecision(allowlists[i].Condition,
                              CheckCounts(allowlists[i], match, secret, line)) THEN TRUE
    ELSE RuleLoop(allowlists, i + 1, match, secret, line)

\* (s *Scanner) isAllowlisted, with s.config passed as cfg
isAllowlisted(cfg, match, secret, line, rule) ==
    IF GlobalLoop(cfg.Allowlists, 1, match, secret, line, rule) THEN TRUE
    ELSE RuleLoop(rule.Allowlists, 1, match, secret, line)

(***************************************************************************)
(* getCodeSnippet.  Offsets are 0-based byte offsets, as in the code.      *)
(***************************************************************************)
\* the mutated test: the first line is never taken for partial
DropFirstNever(start, snippet) == FALSE

\* if start > 0 && !strings.HasPrefix(snippet, "\n")
DropFirst(start, snippet) == start > 0 /\ ~HasPrefix(snippet, <<"\n">>)

\* the mutated test: the end of the content is not looked at
DropLastAlways(end, content, snippet) == ~HasSuffix(snippet, <<"\n">>)

\* if end < len(content) && !strings.HasSuffix(snippet, "\n")
DropLast(end, content, snippet) ==
    end < Len(content) /\ ~HasSuffix(snippet, <<"\n">>)

getCodeSnippet(content, match, maxContext) ==
    LET pos == Index(content, match)
    IN  IF pos = -1 THEN match
        ELSE
        LET start   == IF pos - maxContext < 0 THEN 0 ELSE pos - maxContext
            end0    == pos + Len(match) + maxContext
            end     == IF end0 > Len(content) THEN Len(content) ELSE end0
            snippet == SubSeq(content, start + 1, end)
            lines   == Split(snippet, "\n")
            lines1  == IF DropFirst(start, snippet) THEN Tail(lines) ELSE lines
            lines2  == IF DropLast(end, content, snippet)
                       THEN SubSeq(lines1, 1, Len(lines1) - 1) ELSE lines1
        IN  TrimSpace(IF Len(lines) > 1 THEN Join(lines2, "\n") ELSE snippet)

\* the radius CheckFileForSecrets passes to getCodeSnippet
SnippetContext == 300

(***************************************************************************)
(* pkg/utils.                                                              *)
(***************************************************************************)
IsJavaScriptFile(url) == HasSuffix(url, <<".","j","s">>)

thirdPartyDomains ==
  << <<"f","a","c","e","b","o","o","k",".","n","e","t">>,
     <<"c","o","n","n","e","c","t",".","f","a","c","e","b","o","o","k",".","n","e","t">>,
     <<"g","o","o","g","l","e","a","p","i","s",".","c","o","m">>,
     <<"g","o","o","g","l","e","-","a","n","a","l","y","t","i","c","s",".","c","o","m">>,
     <<"g","o","o","g","l","e","t","a","g","m","a","n","a","g","e","r",".","c","o","m">>,
     <<"d","o","u","b","l","e","c","l","i","c","k",".","n","e","t">>,
     <<"c","l","o","u","d","f","l","a","r","e",".","c","o","m">>,
     <<"c","l","o","u","d","f","r","o","n","t",".","n","e","t">>,
     <<"c","d","n","j","s",".","c","l","o","u","d","f","l","a","r","e",".","c","o","m">>,
     <<"a","j","a","x",".","g","o","o","g","l","e","a","p","i","s",".","c","o","m">>,
     <<"m","a","p","s",".","g","o","o","g","l","e","a","p","i","s",".","c","o","m">>,
     <<"y","o","u","t","u","b","e",".","c","o","m">>,
     <<"y","o","u","t","u",".","b","e">>,
     <<"t","w","i","t","t","e","r",".","c","o","m">>,
     <<"t","w","i","m","g",".","c","o","m">>,
     <<"l","i","n","k","e","d","i","n",".","c","o","m">>,
     <<"a","m","a","z","o","n","a","w","s",".","c","o","m">>,
     <<"c","l","o","u","d","i","n","a","r","y",".","c","o","m">>,
     <<"j","s","d","e","l","i","v","r",".","n","e","t">>,
     <<"u","n","p","k","g",".","c","o","m">>,
     <<"b","o","o","t","s","t","r","a","p","c","d","n",".","c","o","m">>,
     <<"j","q","u","e","r","y",".","c","o","m">>,
     <<"m","i","c","r","o","s","o","f","t",".","c","o","m">>,
     <<"m","i","c","r","o","s","o","f","t","o","n","l","i","n","e",".","c","o","m">>,
     <<"b","i","n","g",".","c","o","m">>,
     <<"b","i","n","g","a","p","i","s",".","c","o","m">> >>

IsThirdPartyDomain(url) ==
    \E i \in 1..Len(thirdPartyDomains) : StrContains(url, thirdPartyDomains[i])

(***************************************************************************)
(* The rule loop of CheckFileForSecrets.  st is the pair of the findings   *)
(* list and the reportedMatches map (the set of its keys) as the loops     *)
(* update them.                                                            *)
(***************************************************************************)
\* reportedMatches := make(map[string]bool)
NewReportedMatches == {}

\* fmt.Sprintf("%s:%s:%s", rule.ID, url, secret)
MatchKey(ruleID, url, secret) == ruleID \o <<":">> \o url \o <<":">> \o secret

\* mutant: the reportedMatches map is never consulted
AlreadyReportedNever(reportedMatches, matchKey) == FALSE

\* if reportedMatches[matchKey] { continue }
AlreadyReported(reportedMatches, matchKey) == matchKey \in reportedMatches

\* if entropy < rule.Entropy { continue }
BelowThreshold(entropy, threshold) == entropy < threshold

\* the keyword pre-filter: the rule is skipped when it has keywords and
\* none of them occurs in the content
KeywordSkipNever(rule, contentStr) == FALSE

\* len(rule.Keywords) > 0 and no keyword is contained in the content
KeywordSkip(rule, contentStr) ==
    /\ Len(rule.Keywords) > 0
    /\ ~\E i \in 1..Len(rule.Keywords) : StrContains(contentStr, rule.Keywords[i])

\* the Finding literal, and finding.Entropy set when the rule has a threshold
NewFinding(rule, url, secret, match0, entropy, codeSnippet) ==
    [Description |-> rule.Description,
     File        |-> url,
     RuleID      |-> rule.ID,
     Tags        |-> rule.Tags,
     Secret      |-> secret,
     Context     |-> match0,
     Line        |-> match0,
     Entropy     |-> IF rule.Entropy > 0 THEN entropy ELSE 0,
     CodeSnippet |-> codeSnippet]

\* mutant: a candidate dropped by the allowlist check records its key
ProcessMatchKeyOnSuppress(cfg, st, rule, url, contentStr, match) ==
    IF Len(match) <= rule.SecretGroup THEN st
    ELSE
    LET secret  == match[rule.SecretGroup + 1]
        entropy == IF rule.Entropy > 0 THEN calculateEntropy(secret) ELSE 0
        key     == MatchKey(rule.ID, url, secret)
    IN  IF TrimSpace(secret) = <<>> THEN st
        ELSE IF rule.Entropy > 0 /\ BelowThreshold(entropy, rule.Entropy) THEN st
        ELSE IF AlreadyReported(st.reportedMatches, key) THEN st
        ELSE IF isAllowlisted(cfg, match[1], secret, match[1], rule)
             THEN [st EXCEPT !.reportedMatches = @ \cup {key}]
        ELSE [findings |-> Append(st.findings,
                                  NewFinding(rule, url, secret, match[1], entropy,
                                             getCodeSnippet(contentStr, match[1],
                                                            SnippetContext))),
              reportedMatches |-> st.reportedMatches \cup {key}]

\* the body of the loop over matches, for one match
ProcessMatch(cfg, st, rule, url, contentStr, match) ==
    IF Len(match) <= rule.SecretGroup THEN st
    ELSE
    LET secret  == match[rule.SecretGroup + 1]
        entropy == IF rule.Entropy > 0 THEN calculateEntropy(secret) ELSE 0
        key     == MatchKey(rule.ID, url, secret)
    IN  IF TrimSpace(secret) = <<>> THEN st
        ELSE IF rule.Entropy > 0 /\ BelowThreshold(entropy, rule.Entropy) THEN st
        ELSE IF AlreadyReported(st.reportedMatches, key) THEN st
        ELSE IF isAllowlisted(cfg, match[1], secret, match[1], rule) THEN st
        ELSE [findings |-> Append(st.findings,
                                  NewFinding(rule, url, secret, match[1], entropy,
                                             getCodeSnippet(contentStr, match[1],
                                                            SnippetContext))),
              reportedMatches |-> st.reportedMatches \cup {key}]

RECURSIVE MatchLoopStopAtDefect(_, _, _, _, _, _, _)
\* mutant: a match without the secret group or with a blank secret ends the
\* loop over matches
MatchLoopStopAtDefect(cfg, st, rule, url, contentStr, matches, k) ==
    IF k > Len(matches) THEN st
    ELSE IF Len(matches[k]) <= rule.SecretGroup THEN st
    ELSE IF TrimSpace(matches[k][rule.SecretGroup + 1]) = <<>> THEN st
    ELSE MatchLoopStopAtDefect(cfg,
             ProcessMatch(cfg, st, rule, url, contentStr, matches[k]),
             rule, url, contentStr, matches, k + 1)

RECURSIVE MatchLoopBackwards(_, _, _, _, _, _, _)
\* mutant: the matches are processed from the last to the first
MatchLoopBackwards(cfg, st, rule, url, contentStr, matches, k) ==
    IF k > Len(matches) THEN st
    ELSE MatchLoopBackwards(cfg,
                            ProcessMatch(cfg, st, rule, url, contentStr,
                                         matches[Len(matches) + 1 - k]),
                            rule, url, contentStr, matches, k + 1)

RECURSIVE MatchLoop(_, _, _, _, _, _, _)
MatchLoop(cfg, st, rule, url, contentStr, matches, k) ==
    IF k > Len(matches) THEN st
    ELSE MatchLoop(cfg, ProcessMatch(cfg, st, rule, url, contentStr, matches[k]),
                   rule, url, contentStr, matches, k + 1)

\* the body of the loop over s.config.Rules, for one rule
ProcessRule(cfg, st, rule, url, contentStr) ==
    IF Contains(cfg.DisabledRules, rule.ID) THEN st
    ELSE IF KeywordSkip(rule, contentStr) THEN st
    ELSE IF ~Compiles(rule.Regex) THEN st
    ELSE MatchLoop(cfg, st, rule, url, contentStr,
                   FindAllStringSubmatch(rule.Regex, contentStr), 1)

RECURSIVE RuleLoopScanAbort(_, _, _, _, _)
\* mutant: a rule whose pattern does not compile ends the loop over rules
RuleLoopScanAbort(cfg, st, i, url, contentStr) ==
    IF i > Len(cfg.Rules) THEN st
    ELSE IF ~Compiles(cfg.Rules[i].Regex) THEN st
    ELSE RuleLoopScanAbort(cfg, ProcessRule(cfg, st, cfg.Rules[i], url, contentStr),
                           i + 1, url, contentStr)

RECURSIVE RuleLoopScan(_, _, _, _, _)
RuleLoopScan(cfg, st, i, url, contentStr) ==
    IF i > Len(cfg.Rules) THEN st
    ELSE RuleLoopScan(cfg, ProcessRule(cfg, st, cfg.Rules[i], url, contentStr),
                      i + 1, url, contentStr)

\* mutant: reportedMatches outlives the call, it starts with the keys of
\* the findings already collected
ScanContentStale(cfg, fs, url, contentStr) ==
    RuleLoopScan(cfg,
                 [findings |-> fs,
                  reportedMatches |->
                      {MatchKey(fs[i].RuleID, fs[i].File, fs[i].Secret) : i \in 1..Len(fs)}],
                 1, url, contentStr).findings

\* s.findings after the rule loop has run over one content body
ScanContent(cfg, fs, url, contentStr) ==
    RuleLoopScan(cfg, [findings |-> fs, reportedMatches |-> NewReportedMatches],
                 1, url, contentStr).findings

(***************************************************************************)
(* NewScannerWithOptions: the header strings are split at the first ": ".  *)
(* http.Header is a map from a key to the list of its values; the keys of  *)
(* the inputs below are already in canonical form.                         *)
(***************************************************************************)
\* strings.SplitN(headerStr, ": ", 2)
SplitHeader(headerStr) ==
    LET i == Index(headerStr, <<":", " ">>)
    IN  IF i = -1 THEN <<headerStr>>
        ELSE <<SubSeq(headerStr, 1, i), SubSeq(headerStr, i + 3, Len(headerStr))>>

\* http.Header.Add
HeaderAdd(h, key, value) ==
    IF key \in DOMAIN h THEN [h EXCEPT ![key] = Append(@, value)]
    ELSE h @@ (key :> <<value>>)

RECURSIVE ParseHeaders(_, _, _)
ParseHeaders(h, headerStrs, i) ==
    IF i > Len(headerStrs) THEN h
    ELSE LET parts == SplitHeader(headerStrs[i])
         IN  IF headerStrs[i] = <<>> \/ Len(parts) # 2
             THEN ParseHeaders(h, headerStrs, i + 1)
             ELSE ParseHeaders(HeaderAdd(h, parts[1], parts[2]), headerStrs, i + 1)

(***************************************************************************)
(* PrintFindings: sort.Slice with less(i, j) = Entropy[i] > Entropy[j],    *)
(* then json.MarshalIndent of the sorted list.  sort.Slice orders the      *)
(* list by less and does not say in which order it leaves elements that    *)
(* less does not separate: every such ordering is an outcome.              *)
(***************************************************************************)
\* mutant: the comparison is turned around
LessAscending(a, b) == a.Entropy < b.Entropy

Less(a, b) == a.Entropy > b.Entropy

RECURSIVE Orderings(_, _)
\* the orders of the indices in idx that less allows: an index may come
\* first when no other element of idx is less than it
Orderings(fs, idx) ==
    IF idx = {} THEN {<<>>}
    ELSE UNION { {<<i>> \o rest : rest \in Orderings(fs, idx \ {i})} :
                 i \in {i \in idx : \A j \in idx : ~Less(fs[j], fs[i])} }

SortSlice(fs) ==
    {[k \in 1..Len(fs) |-> fs[p[k]]] : p \in Orderings(fs, 1..Len(fs))}

\* the JSON object of one Finding: "entropy" has omitempty
MarshalFinding(f) ==
    LET obj == [description  |-> f.Description,
                file         |-> f.File,
                rule_id      |-> f.RuleID,
                tags         |-> f.Tags,
                secret       |-> f.Secret,
                context      |-> f.Context,
                line         |-> f.Line,
                code_snippet |-> f.CodeSnippet]
    IN  IF f.Entropy = 0 THEN obj ELSE obj @@ [entropy |-> f.Entropy]

\* the value of the "findings" key of the printed object
Marshal(fs) == [i \in 1..Len(fs) |-> MarshalFinding(fs[i])]

\* GetFindings
GetFindings == findings

(***************************************************************************)
(* Inputs: rules, allowlists, configurations, URLs and content bodies.     *)
(***************************************************************************)
IdR1 == <<"r","1">>
IdR2 == <<"r","2">>
IdR3 == <<"r","3">>
IdOther == <<"o","t","h","e","r">>
UrlX == <<"h","t","t","p",":","/","/","h","/","x",".","j","s">>
UrlY == <<"h","t","t","p",":","/","/","h","/","y",".","j","s">>
UrlCss == <<"h","t","t","p",":","/","/","h","/","x",".","c","s","s">>
UrlThirdParty ==
    <<"h","t","t","p",":","/","/","y","o","u","t","u",".","b","e","/","x",".","j","s">>

AB == {"a", "b"}
ABSpace == {"a", "b", " "}

\* [kK]=([ab ]{2})
ReKV == Re(<<{"k", "K"}, {"="}, ABSpace, ABSpace>>, <<3, 4>>)
\* k=([ab]{2})
ReLowerKV == Re(<<{"k"}, {"="}, AB, AB>>, <<3, 4>>)
\* k=(é[ab])
ReUtf == Re(Lit(<<"k", "=", "xC3", "xA9">>) \o <<AB>>, <<3, 5>>)
\* [ab]{2}
ReWord == Re(<<AB, AB>>, <<>>)
\* the literal <url>:ab
ReUrlLit == Re(Lit(UrlX \o <<":", "a", "b">>), <<>>)
\* allowlist patterns: K=, k=a, z
ReUpperK == Re(Lit(<<"K", "=">>), <<>>)
ReKeqA == Re(Lit(<<"k", "=", "a">>), <<>>)
ReNever == Re(Lit(<<"z">>), <<>>)

Rule(id, regex, group, entropy, keywords, allowlists) ==
    [ID |-> id, Description |-> "d", Regex |-> regex, SecretGroup |-> group,
     Entropy |-> entropy, Keywords |-> keywords, Tags |-> <<"t">>,
     Allowlists |-> allowlists]

RuleAllowlist(target, regexes, stopwords, condition) ==
    [RegexTarget |-> target, Regexes |-> regexes, Stopwords |-> stopwords,
     Condition |-> condition]

GlobalAllowlist(target, regexes, stopwords, targetRules) ==
    [RegexTarget |-> target, Regexes |-> regexes, Stopwords |-> stopwords,
     TargetRules |-> targetRules]

RKV(allowlists) == Rule(IdR1, ReKV, 1, 0, <<>>, allowlists)
REnt == Rule(IdR2, ReLowerKV, 1, 1000, << <<"z">>, <<"k", "=">> >>, <<>>)
RUtf == Rule(IdR3, ReUtf, 1, 1050, <<>>, <<>>)
RBad == Rule(IdOther, BadRegex, 0, 0, <<>>, <<>>)
RNoGroup == Rule(IdR3, ReLowerKV, 2, 0, <<>>, <<>>)
RKeyword == Rule(IdR3, ReKV, 1, 0, << <<"K">> >>, <<>>)
RUrlLit == Rule(IdR1, ReUrlLit, 0, 0, <<>>, <<>>)
RWord == Rule(IdR1 \o <<":">> \o UrlX, ReWord, 0, 0, <<>>, <<>>)

AlAnd == RuleAllowlist("match", <<ReNever>>, << <<"a">> >>, "AND")
AlOr == RuleAllowlist("match", <<ReNever>>, << <<"a","a">> >>, "OR")
AlUpperK == RuleAllowlist("match", <<BadRegex, ReUpperK>>, <<>>, "AND")
AlLine == RuleAllowlist("line", <<ReUpperK>>, <<>>, "OR")
GStop == GlobalAllowlist("secret", <<>>, << <<"z">>, <<"a","a">> >>, <<>>)
GUpperK == GlobalAllowlist("match", <<ReUpperK>>, << <<"K">> >>, <<IdR1>>)
GOther == GlobalAllowlist("secret", <<>>, << <<"a">> >>, <<IdOther>>)
GLine == GlobalAllowlist("line", <<BadRegex, ReKeqA>>, <<>>, <<IdR2, IdOther>>)
GSecretRe == GlobalAllowlist("secret", <<ReKeqA>>, << <<"k">> >>, <<>>)

Config(rules, allowlists, disabled) ==
    [Rules |-> rules, Allowlists |-> allowlists, DisabledRules |-> disabled]

NoOptions == [headers |-> <<>>, cookies |-> <<>>]
SomeOptions ==
    [headers |-> << <<"A",":"," ","b">>, <<>>, <<"A","b">>, <<"A",":"," ","c">> >>,
     cookies |-> <<"s","=","1">>]

\* one run of the program: the loaded configuration and the command line
Run(cfg, options) == [cfg |-> cfg, options |-> options]

Runs ==
    { Run(Config(<<RKV(<<>>)>>, <<>>, <<>>), NoOptions),
      Run(Config(<<RKV(<<>>), REnt>>, <<>>, <<>>), SomeOptions),
      Run(Config(<<REnt, RKV(<<>>)>>, <<GOther>>, <<>>), NoOptions),
      Run(Config(<<RKV(<<>>), REnt>>, <<GStop>>, <<>>), NoOptions),
      Run(Config(<<RKV(<<>>), REnt>>, <<GUpperK>>, <<>>), NoOptions),
      Run(Config(<<RKV(<<>>), REnt>>, <<GOther, GLine>>, <<>>), SomeOptions),
      Run(Config(<<REnt, RKV(<<>>)>>, <<GSecretRe>>, <<>>), NoOptions),
      Run(Config(<<RUtf, RKV(<<>>)>>, <<>>, <<>>), NoOptions),
      Run(Config(<<RUrlLit, RWord>>, <<>>, <<>>), NoOptions),
      Run(Config(<<RKV(<<AlAnd>>), REnt>>, <<>>, <<>>), NoOptions),
      Run(Config(<<RKV(<<AlOr>>), REnt>>, <<>>, <<>>), NoOptions),
      Run(Config(<<RKV(<<AlUpperK>>)>>, <<>>, <<>>), SomeOptions),
      Run(Config(<<RBad, RKV(<<>>), RNoGroup>>, <<>>, <<>>), NoOptions),
      Run(Config(<<RKeyword, REnt>>, <<>>, <<>>), NoOptions),
      Run(Config(<<RKV(<<>>), REnt>>, <<>>, <<IdR1>>), NoOptions),
      Run(Config(<<RNoGroup, RKV(<<>>), RBad, REnt>>, <<>>, <<>>), NoOptions),
      Run(Config(<<RKV(<<AlLine>>), REnt>>, <<GLine>>, <<>>), NoOptions) }

BodyDup == <<"k","=","a","b"," ","K","=","a","b">>
BodyMixed == <<"k","=","a","a"," ","k","=","a","b">>
BodyUtf == <<"k","=","xC3","xA9","a"," ","k","="," "," ">>
BodyUrl == <<"h","t","t","p",":","/","/","h","/","x",".","j","s",":","a","b">>
BodyBlank == <<"k","="," "," ","k","=","a","b">>
BodyLines == <<"K","=","a","b","\n","k","=","a","b">>

ContentTypeJS ==
    <<"a","p","p","l","i","c","a","t","i","o","n","/","j","a","v","a","s","c","r","i","p","t">>
ContentTypePlain == <<"t","e","x","t","/","p","l","a","i","n">>
ContentTypeHtml == <<"t","e","x","t","/","h","t","m","l">>

\* one call of CheckFileForSecrets and what the network does with it:
\* outcome says how the request ends (http.NewRequest fails, client.Do
\* fails, io.ReadAll fails, or the body is read)
Fetch(url, outcome, contentType, content) ==
    [url |-> url, outcome |-> outcome, contentType |-> contentType, content |-> content]

Fetches ==
    { Fetch(UrlX, "read", ContentTypeJS, BodyDup),
      Fetch(UrlX, "read", ContentTypePlain, BodyMixed),
      Fetch(UrlX, "read", ContentTypeJS, BodyUtf),
      Fetch(UrlX, "read", ContentTypeJS, BodyUrl),
      Fetch(UrlX, "read", ContentTypePlain, BodyLines),
      Fetch(UrlX, "read", ContentTypeJS, BodyBlank),
      Fetch(UrlX, "read", ContentTypeJS, <<>>),
      Fetch(UrlY, "read", ContentTypeJS, BodyDup),
      Fetch(UrlCss, "read", ContentTypeJS, BodyDup),
      Fetch(UrlThirdParty, "read", ContentTypeJS, BodyDup),
      Fetch(UrlX, "requestError", <<>>, <<>>),
      Fetch(UrlX, "fetchError", <<>>, <<>>),
      Fetch(UrlX, "read", ContentTypeHtml, BodyDup),
      Fetch(UrlY, "readError", ContentTypeJS, <<>>) }

(***************************************************************************)
(* The state machine.                                                      *)
(***************************************************************************)
Init ==
    \E run \in Runs :
        /\ config = run.cfg
        /\ findings = <<>>
        /\ headers = ParseHeaders(<<>>, run.options.headers, 1)
        /\ cookies = run.options.cookies
        /\ last = [op |-> "new"]
        /\ ncalls = 0

\* CheckFileForSecrets(url) returns before the rule loop: nil when the URL
\* is no JavaScript file, is third party or the content type is not
\* JavaScript, an error when the request, the fetch or the read fails
\* mutant: no call returns before the scan
EarlyReturnNever(url, outcome, contentType) == "none"

EarlyReturn(url, outcome, contentType) ==
    IF ~IsJavaScriptFile(url) THEN "nil"
    ELSE IF IsThirdPartyDomain(url) THEN "nil"
    ELSE IF outcome = "requestError" THEN "error"
    ELSE IF outcome = "fetchError" THEN "error"
    ELSE IF /\ ~StrContains(contentType, <<"j","a","v","a","s","c","r","i","p","t">>)
            /\ ~StrContains(contentType, <<"t","e","x","t","/","p","l","a","i","n">>)
         THEN "nil"
    ELSE IF outcome = "readError" THEN "error"
    ELSE "none"

CheckFileForSecrets(url, outcome, contentType, content) ==
    /\ ncalls < MaxCalls
    /\ ncalls' = ncalls + 1
    /\ UNCHANGED <<config, headers, cookies>>
    /\ LET early == EarlyReturn(url, outcome, contentType)
       IN  IF early # "none"
           THEN /\ last' = [op |-> "skip", before |-> findings, err |-> early = "error"]
                /\ findings' = findings
           ELSE /\ last' = [op |-> "scan", before |-> findings, err |-> FALSE,
                            url |-> url, outcome |-> outcome,
                            contentType |-> contentType, content |-> content]
                /\ findings' = ScanContent(config, findings, url, content)
                /\ Len(findings') <= MaxFindings

PrintFindings(sorted, writeFails) ==
    /\ ncalls < MaxCalls
    /\ ncalls' = ncalls + 1
    /\ findings' = sorted
    /\ UNCHANGED <<config, headers, cookies>>
    /\ last' = [op |-> "print", before |-> findings, err |-> writeFails,
                out |-> Marshal(sorted)]

Next ==
    \/ \E f \in Fetches :
           CheckFileForSecrets(f.url, f.outcome, f.contentType, f.content)
    \/ \E sorted \in SortSlice(findings), writeFails \in BOOLEAN :
           PrintFindings(sorted, writeFails)

Spec == Init /\ [][Next]_vars

(***************************************************************************)
(* isAllowlisted as a function of its arguments: a second specification    *)
(* that draws a configuration and applies isAllowlisted to candidates.     *)
(* The arguments are free here: line need not equal match.                 *)
(***************************************************************************)
Targets == {"secret", "match", "line"}
RegexLists == {<<>>, <<ReNever>>, <<ReUpperK>>, <<BadRegex, ReKeqA>>, <<BadRegex>>}
StopwordLists == {<<>>, << <<"z">> >>, << <<"z">>, <<"a">> >>, << <<"K">> >>}
Conditions == {"AND", "OR", ""}
TargetRuleLists == {<<>>, <<IdR1>>, <<IdOther>>, <<IdOther, IdR2>>}

RuleAllowlists ==
    {RuleAllowlist(t, r, w, c) :
        t \in Targets, r \in RegexLists, w \in StopwordLists, c \in Conditions}

GlobalAllowlists ==
    {GlobalAllowlist(t, r, w, tr) :
        t \in Targets, r \in RegexLists, w \in StopwordLists, tr \in TargetRuleLists}

\* two rules that share their allowlists and differ in their ID
AllowRules(allowlists) ==
    <<Rule(IdR1, ReKV, 1, 0, <<>>, allowlists), Rule(IdR2, ReKV, 1, 0, <<>>, allowlists)>>

AllowConfigs ==
    {Config(AllowRules(<<al>>), <<>>, <<>>) : al \in RuleAllowlists}
    \cup {Config(AllowRules(<<>>), <<g>>, <<>>) : g \in GlobalAllowlists}
    \cup {Config(AllowRules(<<AlOr>>), <<g, h>>, <<>>) :
             g \in GlobalAllowlists, h \in {GStop, GOther}}
    \cup {Config(AllowRules(<<al, bl>>), <<GOther>>, <<>>) :
             al \in RuleAllowlists, bl \in {AlAnd, AlUpperK}}

\* candidates: the full match, the secret and the line
Candidates ==
    { [match |-> <<"k","=","a","b">>, secret |-> <<"a","b">>,
       line |-> <<"k","=","a","b">>],
      [match |-> <<"K","=","a","b">>, secret |-> <<"a","b">>,
       line |-> <<"x"," ","k","=","a","b">>],
      [match |-> <<"k","=","b","b">>, secret |-> <<"b","b">>,
       line |-> <<"K","=","b","b">>] }

InitAllow ==
    /\ config \in AllowConfigs
    /\ findings = <<>>
    /\ headers = <<>>
    /\ cookies = <<>>
    /\ last = [op |-> "new"]
    /\ ncalls = 0

CallIsAllowlisted(c, rule) ==
    /\ last' = [op |-> "isAllowlisted", match |-> c.match, secret |-> c.secret,
                line |-> c.line, rule |-> rule,
                result |-> isAllowlisted(config, c.match, c.secret, c.line, rule)]
    /\ UNCHANGED <<config, findings, headers, cookies, ncalls>>

NextAllow ==
    \E c \in Candidates, i \in 1..Len(config.Rules) : CallIsAllowlisted(c, config.Rules[i])

SpecAllow == InitAllow /\ [][NextAllow]_vars

(***************************************************************************)
(* What an allowlist's categories say about a candidate, stated without    *)
(* the loops and counters of the code.                                     *)
(***************************************************************************)
RegexCategoryMatches(al, match, secret, line) ==
    \E i \in 1..Len(al.Regexes) :
        /\ al.Regexes[i].ok
        /\ LET t == CASE al.RegexTarget = "match" -> match
                      [] al.RegexTarget = "line"  -> line
                      [] OTHER                    -> secret
           IN  \E o \in 0..Len(t) : MatchAt(al.Regexes[i], t, o)

StopwordCategoryMatches(al, secret) ==
    \E i \in 1..Len(al.Stopwords) :
        \E o \in 0..Len(secret) :
            /\ o + Len(al.Stopwords[i]) <= Len(secret)
            /\ SubSeq(secret, o + 1, o + Len(al.Stopwords[i])) = al.Stopwords[i]

AppliesTo(g, ruleID) ==
    g.TargetRules = <<>> \/ \E i \in 1..Len(g.TargetRules) : g.TargetRules[i] = ruleID

\* some global allowlist that applies to the rule has a matching category
SomeGlobalMatches(cfg, match, secret, line, ruleID) ==
    \E i \in 1..Len(cfg.Allowlists) :
        /\ AppliesTo(cfg.Allowlists[i], ruleID)
        /\ \/ RegexCategoryMatches(cfg.Allowlists[i], match, secret, line)
           \/ StopwordCategoryMatches(cfg.Allowlists[i], secret)

\* the rule-scoped allowlist suppresses, as C1 states it
RuleAllowlistSuppresses(al, match, secret, line) ==
    LET reCfg == al.Regexes # <<>>
        swCfg == al.Stopwords # <<>>
        reHit == RegexCategoryMatches(al, match, secret, line)
        swHit == StopwordCategoryMatches(al, secret)
    IN  IF al.Condition = "AND"
        THEN (reCfg \/ swCfg) /\ (reCfg => reHit) /\ (swCfg => swHit)
        ELSE reHit \/ swHit

\* C1: when no global allowlist suppresses, isAllowlisted returns true iff
\* one of the rule's allowlists suppresses, where an "AND" allowlist
\* suppresses iff it has a configured category and every configured
\* category matched, and an "OR" allowlist iff some category matched; so
\* an allowlist with one regex that does not match and a stopword that is a
\* substring of the secret does not suppress under AND and does under OR.
C1_AndOrCondition ==
    last.op = "isAllowlisted" =>
        LET r == last.rule
        IN  ~SomeGlobalMatches(config, last.match, last.secret, last.line, r.ID) =>
               (last.result <=>
                   \E i \in 1..Len(r.Allowlists) :
                       RuleAllowlistSuppresses(r.Allowlists[i], last.match,
                                               last.secret, last.line))

\* the case of C1: AND, a regex that does not match, a stopword that does
C1_Witness ==
    /\ last.op = "isAllowlisted"
    /\ config.Allowlists = <<>>
    /\ Len(last.rule.Allowlists) = 1
    /\ LET al == last.rule.Allowlists[1]
       IN  /\ al.Condition = "AND"
           /\ Len(al.Regexes) = 1
           /\ ~RegexCategoryMatches(al, last.match, last.secret, last.line)
           /\ StopwordCategoryMatches(al, last.secret)
    /\ last.result = FALSE

\* the same allowlist under OR suppresses
C1_WitnessOr ==
    /\ last.op = "isAllowlisted"
    /\ config.Allowlists = <<>>
    /\ Len(last.rule.Allowlists) = 1
    /\ LET al == last.rule.Allowlists[1]
       IN  /\ al.Condition = "OR"
           /\ Len(al.Regexes) = 1
           /\ ~RegexCategoryMatches(al, last.match, last.secret, last.line)
           /\ StopwordCategoryMatches(al, last.secret)
    /\ last.result = TRUE

\* the configuration without the global allowlists that name target rules
\* and not this rule
RECURSIVE KeepApplicable(_, _)
KeepApplicable(allowlists, ruleID) ==
    IF allowlists = <<>> THEN <<>>
    ELSE (IF AppliesTo(allowlists[1], ruleID) THEN <<allowlists[1]>> ELSE <<>>)
         \o KeepApplicable(Tail(allowlists), ruleID)

\* C3: a global allowlist whose targetRules is non-empty and does not hold
\* the rule's ID changes nothing: isAllowlisted returns what it returns
\* with every such allowlist removed from the configuration.
C3_TargetRulesScope ==
    last.op = "isAllowlisted" =>
        last.result =
            isAllowlisted([config EXCEPT !.Allowlists = KeepApplicable(@, last.rule.ID)],
                          last.match, last.secret, last.line, last.rule)

\* a global allowlist for other rules whose stopword is in the secret, and
\* the candidate is not suppressed
C3_Witness ==
    /\ last.op = "isAllowlisted"
    /\ last.result = FALSE
    /\ \E i \in 1..Len(config.Allowlists) :
           /\ ~AppliesTo(config.Allowlists[i], last.rule.ID)
           /\ StopwordCategoryMatches(config.Allowlists[i], last.secret)

(***************************************************************************)
(* One evaluation, stated over the content: the rules that reach           *)
(* extraction and the candidates their matches give.                       *)
(***************************************************************************)
\* the findings the last CheckFileForSecrets call appended
NewSegment == SubSeq(findings, Len(last.before) + 1, Len(findings))

\* the rule is enabled, passes the keyword pre-filter and compiles
Extracts(cfg, rule, content) ==
    /\ \A i \in 1..Len(cfg.DisabledRules) : cfg.DisabledRules[i] # rule.ID
    /\ rule.Keywords = <<>> \/ \E i \in 1..Len(rule.Keywords) :
                                  \E o \in 0..Len(content) :
                                      /\ o + Len(rule.Keywords[i]) <= Len(content)
                                      /\ SubSeq(content, o + 1, o + Len(rule.Keywords[i]))
                                             = rule.Keywords[i]
    /\ rule.Regex.ok

\* the candidates of a rule: offset, full match and secret of every match
\* that has the secret group and a secret that is not blank
CandidatesOf(rule, content) ==
    LET offs == MatchOffsets(rule.Regex, content, 0)
    IN  { [offset |-> offs[k],
           match  |-> Submatch(rule.Regex, content, offs[k])[1],
           secret |-> Submatch(rule.Regex, content, offs[k])[rule.SecretGroup + 1]] :
          k \in { k \in 1..Len(offs) :
                    /\ Len(Submatch(rule.Regex, content, offs[k])) > rule.SecretGroup
                    /\ \E b \in 1..Len(Submatch(rule.Regex, content,
                                                offs[k])[rule.SecretGroup + 1]) :
                           Submatch(rule.Regex, content,
                                    offs[k])[rule.SecretGroup + 1][b] \notin Whitespace } }

RulesOf(cfg) == {cfg.Rules[i] : i \in 1..Len(cfg.Rules)}

\* the candidate is suppressed by some allowlist, global or of the rule
Suppressed(cfg, rule, c) ==
    \/ SomeGlobalMatches(cfg, c.match, c.secret, c.match, rule.ID)
    \/ \E i \in 1..Len(rule.Allowlists) :
           RuleAllowlistSuppresses(rule.Allowlists[i], c.match, c.secret, c.match)

\* C2: for every candidate of the scanned content, isAllowlisted returns
\* true iff a global allowlist that applies to the rule has a regex that
\* matches the selected target or a stopword that is a substring of the
\* secret (or an allowlist of the rule suppresses); and no Finding in the
\* list is one that an applicable global allowlist matches, so a secret
\* that contains a global stopword never becomes a Finding.
C2_GlobalAllowlistSuppresses ==
    /\ \A i \in 1..Len(findings) :
           ~SomeGlobalMatches(config, findings[i].Context, findings[i].Secret,
                              findings[i].Line, findings[i].RuleID)
    /\ last.op = "scan" =>
           \A rule \in RulesOf(config) :
               rule.Regex.ok =>
                   \A c \in CandidatesOf(rule, last.content) :
                       isAllowlisted(config, c.match, c.secret, c.match, rule)
                           <=> Suppressed(config, rule, c)

\* a candidate that reaches the allowlist check with a secret that holds a
\* stopword of an applicable global allowlist, and no Finding for it
C2_Witness ==
    /\ last.op = "scan"
    /\ \E rule \in RulesOf(config) :
           /\ Extracts(config, rule, last.content)
           /\ rule.Entropy = 0
           /\ \E c \in CandidatesOf(rule, last.content) :
                  /\ \E i \in 1..Len(config.Allowlists) :
                         /\ AppliesTo(config.Allowlists[i], rule.ID)
                         /\ config.Allowlists[i].RegexTarget = "secret"
                         /\ StopwordCategoryMatches(config.Allowlists[i], c.secret)
                  /\ \A i \in 1..Len(findings) :
                         ~(findings[i].RuleID = rule.ID /\ findings[i].Secret = c.secret)

\* C4: the findings one CheckFileForSecrets call appends hold no two
\* entries with the same rule ID, file and secret.
C4_DedupWithinCall ==
    last.op = "scan" =>
        \A i, j \in 1..Len(NewSegment) :
            (/\ NewSegment[i].RuleID = NewSegment[j].RuleID
             /\ NewSegment[i].File = NewSegment[j].File
             /\ NewSegment[i].Secret = NewSegment[j].Secret) => i = j

\* a rule matched the same secret at two places and one Finding came of it
C4_Witness ==
    /\ last.op = "scan"
    /\ \E rule \in RulesOf(config) :
           /\ Extracts(config, rule, last.content)
           /\ \E c, d \in CandidatesOf(rule, last.content) :
                  /\ c.offset < d.offset
                  /\ c.secret = d.secret
                  /\ ~Suppressed(config, rule, c)
                  /\ ~Suppressed(config, rule, d)
                  /\ Cardinality({i \in 1..Len(NewSegment) :
                                     /\ NewSegment[i].RuleID = rule.ID
                                     /\ NewSegment[i].Secret = c.secret}) = 1

\* the number of times x occurs in seq
Count(seq, x) == Cardinality({i \in 1..Len(seq) : seq[i] = x})

SameElements(a, b) ==
    /\ Len(a) = Len(b)
    /\ \A x \in Range(a) \cup Range(b) : Count(a, x) = Count(b, x)

\* C5: what a call appends does not depend on the findings collected
\* before: the list after the call is the list before followed by what the
\* same content gives on a Scanner with no findings, so a secret reported
\* by an earlier call is reported again; a call that returns early leaves
\* the list as it was and PrintFindings keeps every element of it.
C5_DedupDoesNotSurvive ==
    /\ last.op = "scan" =>
           findings = last.before \o ScanContent(config, <<>>, last.url, last.content)
    /\ last.op = "skip" => findings = last.before
    /\ last.op = "print" => SameElements(findings, last.before)

\* a Finding of an earlier call is appended again by this call, once for
\* the same file and once when the earlier one came from another file
C5_Witness ==
    /\ last.op = "scan"
    /\ \E i, k \in 1..Len(last.before), j \in (Len(last.before) + 1)..Len(findings) :
           /\ findings[i] = findings[j]
           /\ findings[k].File # findings[j].File
           /\ findings[k].RuleID = findings[j].RuleID
           /\ findings[k].Secret = findings[j].Secret

(***************************************************************************)
(* The Shannon entropy of a string in bits per character, in thousandths:  *)
(* the probability of a character is its count over the number of          *)
(* characters of the string.                                               *)
(***************************************************************************)
ShannonEntropy(s) ==
    LET runes == DecodeRunes(s)
        n     == Len(runes)
        count == [r \in Range(runes) |-> Cardinality({i \in 1..n : runes[i] = r})]
    IN  IF n = 0 THEN 0
        ELSE SumOver(DOMAIN count,
                     [r \in DOMAIN count |->
                         (count[r] * (Log2Milli[n] - Log2Milli[count[r]])) \div n])

\* the findings of the last call for a rule ID and a secret
SegmentFindings(ruleID, secret) ==
    {i \in 1..Len(NewSegment) :
        NewSegment[i].RuleID = ruleID /\ NewSegment[i].Secret = secret}

\* C6: for a rule with entropyThreshold t > 0, every Finding of the rule
\* carries the entropy of its secret, that value is at least t and is
\* present in the JSON; a candidate whose secret has entropy below t gives
\* no Finding, and one with entropy t or more that no allowlist suppresses
\* gives one.
C6_EntropyGate ==
    /\ \A i \in 1..Len(findings) :
           \A rule \in RulesOf(config) :
               (rule.ID = findings[i].RuleID /\ rule.Entropy > 0) =>
                   /\ findings[i].Entropy = ShannonEntropy(findings[i].Secret)
                   /\ findings[i].Entropy >= rule.Entropy
                   /\ "entropy" \in DOMAIN MarshalFinding(findings[i])
    /\ last.op = "scan" =>
           \A rule \in RulesOf(config) :
               (Extracts(config, rule, last.content) /\ rule.Entropy > 0) =>
                   \A c \in CandidatesOf(rule, last.content) :
                       /\ ShannonEntropy(c.secret) < rule.Entropy =>
                              SegmentFindings(rule.ID, c.secret) = {}
                       /\ (/\ ShannonEntropy(c.secret) >= rule.Entropy
                           /\ ~Suppressed(config, rule, c)) =>
                              SegmentFindings(rule.ID, c.secret) # {}

\* C7: for an enabled rule with entropyThreshold 0 that passes the keyword
\* pre-filter and compiles, every secret of a match that is not blank and
\* not allowlisted gives exactly one Finding of the call, and that Finding
\* has Entropy 0 and no "entropy" key in its JSON.
C7_ZeroThresholdFindings ==
    last.op = "scan" =>
        \A rule \in RulesOf(config) :
            (Extracts(config, rule, last.content) /\ rule.Entropy = 0) =>
                \A c \in CandidatesOf(rule, last.content) :
                    ~Suppressed(config, rule, c) =>
                        /\ Cardinality(SegmentFindings(rule.ID, c.secret)) = 1
                        /\ \A i \in SegmentFindings(rule.ID, c.secret) :
                               /\ NewSegment[i].Entropy = 0
                               /\ "entropy" \notin DOMAIN MarshalFinding(NewSegment[i])

\* the place of a rule ID in the rule list
RuleIndex(cfg, ruleID) == CHOOSE i \in 1..Len(cfg.Rules) : cfg.Rules[i].ID = ruleID

\* the offset of the leftmost match that gives the Finding's text and secret
FirstOffset(cfg, content, f) ==
    LET rule == cfg.Rules[RuleIndex(cfg, f.RuleID)]
        offs == {c.offset : c \in {c \in CandidatesOf(rule, content) :
                                      c.match = f.Context /\ c.secret = f.Secret}}
    IN  CHOOSE o \in offs : \A q \in offs : o <= q

\* C8: of two findings appended by one call, the one of the rule declared
\* earlier comes first, and of two of the same rule the one whose match
\* lies further left in the content comes first.
C8_EmissionOrder ==
    last.op = "scan" =>
        \A i, j \in 1..Len(NewSegment) :
            i < j =>
                LET ri == RuleIndex(config, NewSegment[i].RuleID)
                    rj == RuleIndex(config, NewSegment[j].RuleID)
                IN  \/ ri < rj
                    \/ /\ ri = rj
                       /\ FirstOffset(config, last.content, NewSegment[i])
                              < FirstOffset(config, last.content, NewSegment[j])

\* one call appended two findings of one rule and one of a later rule
C8_Witness ==
    /\ last.op = "scan"
    /\ \E i, j, k \in 1..Len(NewSegment) :
           /\ i < j /\ j < k
           /\ NewSegment[i].RuleID = NewSegment[j].RuleID
           /\ NewSegment[j].RuleID # NewSegment[k].RuleID

\* the entropy a serialized Finding counts with: 0 when the key is absent
EntropyOfJSON(obj) == IF "entropy" \in DOMAIN obj THEN obj.entropy ELSE 0

SortedDescending(entropies) ==
    \A i, j \in 1..Len(entropies) : i < j => entropies[i] >= entropies[j]

\* C9 as stated: the list GetFindings returns is sorted by entropy in
\* descending order at any time, and so is the list PrintFindings prints.
C9_ReadsSorted ==
    /\ SortedDescending([i \in 1..Len(GetFindings) |-> GetFindings[i].Entropy])
    /\ last.op = "print" =>
           SortedDescending([i \in 1..Len(last.out) |-> EntropyOfJSON(last.out[i])])

\* C9 amended: the list PrintFindings prints holds every collected Finding
\* and is sorted by entropy in descending order, a Finding without entropy
\* counting as 0, and GetFindings returns a sorted list right after it.
C9_PrintedSorted ==
    last.op = "print" =>
        /\ Len(last.out) = Len(last.before)
        /\ SortedDescending([i \in 1..Len(last.out) |-> EntropyOfJSON(last.out[i])])
        /\ SortedDescending([i \in 1..Len(GetFindings) |-> GetFindings[i].Entropy])

\* PrintFindings ran on a list that was not sorted and that holds findings
\* with and without entropy
C9_Witness ==
    /\ last.op = "print"
    /\ ~SortedDescending([i \in 1..Len(last.before) |-> last.before[i].Entropy])
    /\ \E i, j \in 1..Len(last.out) :
           "entropy" \in DOMAIN last.out[i] /\ "entropy" \notin DOMAIN last.out[j]

\* the place a stable sort gives the element at index i
StableRank(fs, i) ==
    1 + Cardinality({j \in 1..Len(fs) : fs[j].Entropy > fs[i].Entropy})
      + Cardinality({j \in 1..(i - 1) : fs[j].Entropy = fs[i].Entropy})

StableSorted(fs) ==
    [k \in 1..Len(fs) |-> fs[CHOOSE i \in 1..Len(fs) : StableRank(fs, i) = k]]

\* C10: the sort is stable: findings of equal entropy are printed in the
\* order they had in the list before the sort.
C10_StableSort ==
    last.op = "print" => last.out = Marshal(StableSorted(last.before))

(***************************************************************************)
(* getCodeSnippet and calculateEntropy called on their own, over every     *)
(* small content, match and radius, and over every short string of         *)
(* one-byte and two-byte characters.                                       *)
(***************************************************************************)
MaxContentLen == 5
MaxRadius == 2
MaxRunes == 3

RECURSIVE StringsOver(_, _)
\* the strings of at most n elements of the alphabet, concatenated
StringsOver(alphabet, n) ==
    IF n = 0 THEN {<<>>}
    ELSE LET shorter == StringsOver(alphabet, n - 1)
         IN  shorter \cup {s \o a : s \in shorter, a \in alphabet}

SnippetContents == StringsOver({<<"a">>, <<" ">>, <<"\n">>}, MaxContentLen)
SnippetMatches == {<<"a">>, <<"a", "a">>, <<"a", "\n">>, <<"b">>}
Radii == 0..MaxRadius \cup {SnippetContext}
EntropyStrings == StringsOver({<<"a">>, <<"b">>, <<"xC3", "xA9">>}, MaxRunes)

\* the arguments of the call the behaviour makes
PureCalls ==
    {[op |-> "args", fn |-> "getCodeSnippet", content |-> content, match |-> match,
      maxContext |-> r] :
        content \in SnippetContents, match \in SnippetMatches, r \in Radii}
    \cup {[op |-> "args", fn |-> "calculateEntropy", s |-> s] : s \in EntropyStrings}

InitPure ==
    /\ config = Config(<<>>, <<>>, <<>>)
    /\ findings = <<>>
    /\ headers = <<>>
    /\ cookies = <<>>
    /\ last \in PureCalls
    /\ ncalls = 0

CallGetCodeSnippet ==
    /\ last.op = "args" /\ last.fn = "getCodeSnippet"
    /\ last' = [op |-> "getCodeSnippet", content |-> last.content,
                match |-> last.match, maxContext |-> last.maxContext,
                result |-> getCodeSnippet(last.content, last.match, last.maxContext)]
    /\ UNCHANGED <<config, findings, headers, cookies, ncalls>>

CallCalculateEntropy ==
    /\ last.op = "args" /\ last.fn = "calculateEntropy"
    /\ last' = [op |-> "calculateEntropy", s |-> last.s,
                result |-> calculateEntropy(last.s)]
    /\ UNCHANGED <<config, findings, headers, cookies, ncalls>>

NextPure == CallGetCodeSnippet \/ CallCalculateEntropy

SpecPure == InitPure /\ [][NextPure]_vars

(***************************************************************************)
(* The snippet stated on the offsets of the content, without splitting     *)
(* and joining lines.                                                      *)
(***************************************************************************)
Occurs(content, match) ==
    \E o \in 0..(Len(content) - Len(match)) :
        SubSeq(content, o + 1, o + Len(match)) = match

\* s without its leading and trailing whitespace
Trimmed(s) ==
    LET ink == {i \in 1..Len(s) : s[i] \notin Whitespace}
    IN  IF ink = {} THEN <<>>
        ELSE SubSeq(s, CHOOSE i \in ink : \A j \in ink : i <= j,
                       CHOOSE i \in ink : \A j \in ink : i >= j)

\* the window [start, end) of the content around the first occurrence
WindowStart(content, match, radius) ==
    LET pos == Index(content, match) IN IF pos - radius < 0 THEN 0 ELSE pos - radius

WindowEnd(content, match, radius) ==
    LET e == Index(content, match) + Len(match) + radius
    IN  IF e > Len(content) THEN Len(content) ELSE e

\* the positions of the newlines of the window
WindowNewlines(content, match, radius) ==
    {i \in (WindowStart(content, match, radius) + 1)..WindowEnd(content, match, radius) :
        content[i] = "\n"}

FirstLinePartial(content, match, radius) ==
    /\ WindowStart(content, match, radius) > 0
    /\ content[WindowStart(content, match, radius) + 1] # "\n"

LastLinePartial(content, match, radius) ==
    /\ WindowEnd(content, match, radius) < Len(content)
    /\ content[WindowEnd(content, match, radius)] # "\n"

\* the window without its first line when that line is partial and without
\* its last line when that line is partial, trimmed
WholeLines(content, match, radius) ==
    LET start == WindowStart(content, match, radius)
        end   == WindowEnd(content, match, radius)
        nl    == WindowNewlines(content, match, radius)
        lo    == IF ~FirstLinePartial(content, match, radius) THEN start + 1
                 ELSE IF nl = {} THEN end + 1
                 ELSE (CHOOSE i \in nl : \A j \in nl : i <= j) + 1
        hi    == IF ~LastLinePartial(content, match, radius) THEN end
                 ELSE IF nl = {} THEN start
                 ELSE (CHOOSE i \in nl : \A j \in nl : i >= j) - 1
    IN  Trimmed(SubSeq(content, lo, hi))

\* C11 as stated: whenever the window starts after the start of the content
\* and does not begin with a newline its first line is dropped, and whenever
\* it ends before the end of the content and does not end with a newline its
\* last line is dropped, also when the window holds no newline.
C11_PartialLinesAlwaysDropped ==
    (last.op = "getCodeSnippet" /\ Occurs(last.content, last.match)) =>
        last.result = WholeLines(last.content, last.match, last.maxContext)

\* C11 amended: the partial first line and the partial last line are
\* dropped when the window holds a newline; a window without a newline is
\* returned whole, trimmed.
C11_PartialLinesDropped ==
    (last.op = "getCodeSnippet" /\ Occurs(last.content, last.match)) =>
        last.result =
            IF WindowNewlines(last.content, last.match, last.maxContext) = {}
            THEN Trimmed(SubSeq(last.content,
                     WindowStart(last.content, last.match, last.maxContext) + 1,
                     WindowEnd(last.content, last.match, last.maxContext)))
            ELSE WholeLines(last.content, last.match, last.maxContext)

\* a partial first line was dropped from a window that holds a newline, and
\* something is left
C11_Witness ==
    /\ last.op = "getCodeSnippet" /\ Occurs(last.content, last.match)
    /\ WindowNewlines(last.content, last.match, last.maxContext) # {}
    /\ FirstLinePartial(last.content, last.match, last.maxContext)
    /\ last.result # <<>>

\* C12: when the match occurs and the window reaches both edges of the
\* content the snippet is the whole content, trimmed, with no line dropped;
\* when the match does not occur the snippet is the match itself.
C12_WholeContent ==
    last.op = "getCodeSnippet" =>
        /\ ~Occurs(last.content, last.match) => last.result = last.match
        /\ (/\ Occurs(last.content, last.match)
            /\ Index(last.content, last.match) - last.maxContext <= 0
            /\ Index(last.content, last.match) + Len(last.match) + last.maxContext
                   >= Len(last.content)) =>
               last.result = Trimmed(last.content)

\* a radius larger than the content around a match in a content of several
\* lines with whitespace at its edges
C12_Witness ==
    /\ last.op = "getCodeSnippet" /\ Occurs(last.content, last.match)
    /\ last.maxContext > Len(last.content)
    /\ "\n" \in Range(last.result)
    /\ last.result # last.content
    /\ last.content[Len(last.content)] # "\n"

(***************************************************************************)
(* The keyword pre-filter.                                                 *)
(***************************************************************************)
\* some keyword of the rule is a substring of the content, byte for byte
KeywordOccurs(rule, content) ==
    \E i \in 1..Len(rule.Keywords) : Occurs(content, rule.Keywords[i])

\* the configuration with the keywords removed from every rule that has one
\* of its keywords in the content
WithoutPassingKeywords(cfg, content) ==
    [cfg EXCEPT !.Rules =
        [i \in 1..Len(cfg.Rules) |->
            IF KeywordOccurs(cfg.Rules[i], content)
            THEN [cfg.Rules[i] EXCEPT !.Keywords = <<>>]
            ELSE cfg.Rules[i]]]

\* C13: a rule with keywords gives no Finding for a content that holds none
\* of them as a case-sensitive substring; a rule without keywords is not
\* skipped by the pre-filter; and when a keyword occurs the call appends
\* what it appends with the rule's keywords removed.
C13_KeywordPrefilter ==
    last.op = "scan" =>
        /\ \A rule \in RulesOf(config) :
               /\ (rule.Keywords # <<>> /\ ~KeywordOccurs(rule, last.content)) =>
                      \A i \in 1..Len(NewSegment) : NewSegment[i].RuleID # rule.ID
               /\ rule.Keywords = <<>> => ~KeywordSkip(rule, last.content)
        /\ NewSegment =
               ScanContent(WithoutPassingKeywords(config, last.content), <<>>,
                           last.url, last.content)

\* the pattern of a rule with the keyword K matches a content that holds k
\* but not K, and another rule with keywords has one of them in the content
C13_Witness ==
    /\ last.op = "scan"
    /\ \E rule \in RulesOf(config) :
           /\ rule.Keywords = << <<"K">> >>
           /\ "k" \in Range(last.content) /\ "K" \notin Range(last.content)
           /\ Extracts(config, [rule EXCEPT !.Keywords = <<>>], last.content)
           /\ \E c \in CandidatesOf(rule, last.content) : ~Suppressed(config, rule, c)
    /\ \E rule \in RulesOf(config) :
           /\ Len(rule.Keywords) > 1 /\ KeywordOccurs(rule, last.content)
           /\ \E i \in 1..Len(NewSegment) : NewSegment[i].RuleID = rule.ID

(***************************************************************************)
(* Defects of the configuration and of the data.                           *)
(***************************************************************************)
\* the configuration without the rules whose pattern does not compile
WithoutBadRules(cfg) ==
    [cfg EXCEPT !.Rules = SelectSeq(cfg.Rules, LAMBDA rule : rule.Regex.ok)]

\* C14: a rule whose pattern does not compile gives no Finding, the call
\* appends what it appends with that rule removed from the rule list, and
\* it returns no error.
C14_BadRuleSkipped ==
    last.op = "scan" =>
        /\ ~last.err
        /\ \A rule \in RulesOf(config) :
               ~rule.Regex.ok =>
                   \A i \in 1..Len(NewSegment) : NewSegment[i].RuleID # rule.ID
        /\ NewSegment = ScanContent(WithoutBadRules(config), <<>>, last.url, last.content)

\* a rule declared before the bad rule and a rule declared after it both
\* gave a Finding
C14_Witness ==
    /\ last.op = "scan"
    /\ \E b \in 1..Len(config.Rules) :
           /\ ~config.Rules[b].Regex.ok
           /\ \E i, j \in 1..Len(NewSegment) :
                  /\ RuleIndex(config, NewSegment[i].RuleID) < b
                  /\ RuleIndex(config, NewSegment[j].RuleID) > b

\* the candidate reached the end of the loop body: it is a Finding of the
\* call, or it was dropped by the entropy gate, by an allowlist or because
\* its key was already recorded
Processed(cfg, rule, c) ==
    \/ \E i \in 1..Len(NewSegment) :
           MatchKey(NewSegment[i].RuleID, NewSegment[i].File, NewSegment[i].Secret)
               = MatchKey(rule.ID, last.url, c.secret)
    \/ Suppressed(cfg, rule, c)
    \/ rule.Entropy > 0 /\ calculateEntropy(c.secret) < rule.Entropy

\* the matches of the rule that lack the secret group or hold a blank secret
DefectOffsets(rule, content) ==
    LET offs == MatchOffsets(rule.Regex, content, 0)
    IN  {offs[k] : k \in 1..Len(offs)} \ {c.offset : c \in CandidatesOf(rule, content)}

C16_EntropyOverCharacters ==
    last.op = "calculateEntropy" =>
        /\ last.s = <<>> => last.result = 0
        /\ Cardinality(Range(DecodeRunes(last.s))) = 1 => last.result = 0
        /\ last.result = ShannonEntropy(last.s)

(***************************************************************************)
(* Allowlists that are empty or hold a regex that does not compile.        *)
(***************************************************************************)
\* what the last isAllowlisted call returns when only the allowlists that
\* satisfy Keep are left, in the configuration and in the rule
IsAllowlistedKeeping(Keep(_)) ==
    isAllowlisted([config EXCEPT !.Allowlists = SelectSeq(@, Keep)],
                  last.match, last.secret, last.line,
                  [last.rule EXCEPT !.Allowlists = SelectSeq(@, Keep)])

\* what the last isAllowlisted call returns when every allowlist is
\* rewritten by Change
IsAllowlistedChanging(Change(_)) ==
    isAllowlisted([config EXCEPT !.Allowlists = [i \in DOMAIN @ |-> Change(@[i])]],
                  last.match, last.secret, last.line,
                  [last.rule EXCEPT !.Allowlists = [i \in DOMAIN @ |-> Change(@[i])]])

HasEntries(al) == al.Regexes # <<>> \/ al.Stopwords # <<>>

\* C17: an allowlist without regexes and without stopwords never
\* suppresses: isAllowlisted returns what it returns with every such
\* allowlist removed, and false when no other allowlist is configured.
C17_EmptyAllowlistNeverSuppresses ==
    last.op = "isAllowlisted" =>
        /\ last.result = IsAllowlistedKeeping(HasEntries)
        /\ (/\ \A i \in 1..Len(config.Allowlists) : ~HasEntries(config.Allowlists[i])
            /\ \A i \in 1..Len(last.rule.Allowlists) : ~HasEntries(last.rule.Allowlists[i]))
               => last.result = FALSE

\* a rule allowlist without entries under AND, alone, and the candidate is
\* not suppressed
C17_Witness ==
    /\ last.op = "isAllowlisted"
    /\ last.result = FALSE
    /\ \E i \in 1..Len(last.rule.Allowlists) :
           /\ ~HasEntries(last.rule.Allowlists[i])
           /\ last.rule.Allowlists[i].Condition = "AND"

HasBadRegex(al) == \E i \in 1..Len(al.Regexes) : ~al.Regexes[i].ok

NoBadRegex(al) == ~HasBadRegex(al)

\* C18 as stated: an allowlist that holds a regex that does not compile
\* suppresses nothing: isAllowlisted returns what it returns with every
\* such allowlist removed.
C18_BadRegexDisablesAllowlist ==
    last.op = "isAllowlisted" => last.result = IsAllowlistedKeeping(NoBadRegex)

\* the allowlist can still suppress: it has a regex that compiles, or it has
\* stopwords and is not a rule allowlist under AND whose regexes all fail
CanStillSuppress(al) ==
    \/ \E i \in 1..Len(al.Regexes) : al.Regexes[i].ok
    \/ /\ al.Stopwords # <<>>
       /\ ~("Condition" \in DOMAIN al /\ al.Condition = "AND" /\ al.Regexes # <<>>)

\* C18 amended: only the regex that does not compile is lost.  An allowlist
\* is without effect when none of its regexes compiles and it has no
\* stopwords, or it is a rule allowlist under AND with regexes none of
\* which compiles; any other allowlist keeps suppressing through its other
\* regexes and its stopwords.
C18_BadRegexAloneIsLost ==
    last.op = "isAllowlisted" => last.result = IsAllowlistedKeeping(CanStillSuppress)

\* a rule allowlist under AND whose only regex does not compile and whose
\* stopword is in the secret, and the candidate is not suppressed
C18_Witness ==
    /\ last.op = "isAllowlisted"
    /\ last.result = FALSE
    /\ \E i \in 1..Len(last.rule.Allowlists) :
           /\ HasBadRegex(last.rule.Allowlists[i])
           /\ ~CanStillSuppress(last.rule.Allowlists[i])
           /\ StopwordCategoryMatches(last.rule.Allowlists[i], last.secret)

\* a pattern that compiles and matches no string
ReNothing == Re(<<{}>>, <<>>)

ReplaceBadRegexes(al) ==
    [al EXCEPT !.Regexes = [i \in DOMAIN @ |-> IF @[i].ok THEN @[i] ELSE ReNothing]]

\* C19: a regex of an allowlist that does not compile is skipped as an
\* entry that does not match: isAllowlisted returns what it returns with
\* every such regex replaced by a pattern that compiles and matches nothing.
C19_BadRegexSkipped ==
    last.op = "isAllowlisted" => last.result = IsAllowlistedChanging(ReplaceBadRegexes)

\* the candidate is suppressed by a regex that follows, in its allowlist, a
\* regex that does not compile
C19_Witness ==
    /\ last.op = "isAllowlisted"
    /\ last.result = TRUE
    /\ \E al \in Range(config.Allowlists) \cup Range(last.rule.Allowlists) :
           /\ \E i, j \in 1..Len(al.Regexes) :
                  i < j /\ ~al.Regexes[i].ok /\ al.Regexes[j].ok
           /\ RegexCategoryMatches(al, last.match, last.secret, last.line)
           /\ ~StopwordCategoryMatches(al, last.secret)
    /\ ~IsAllowlistedKeeping(NoBadRegex)

(***************************************************************************)
(* The regex target "line".                                                *)
(***************************************************************************)
\* the allowlist with the regex target from replaced by the target to
Retarget(al, from, to) ==
    IF al.RegexTarget = from THEN [al EXCEPT !.RegexTarget = to] ELSE al

\* the configuration with that replacement in every allowlist, global and
\* of a rule
RetargetConfig(cfg, from, to) ==
    [cfg EXCEPT
        !.Allowlists = [i \in DOMAIN @ |-> Retarget(@[i], from, to)],
        !.Rules = [i \in DOMAIN @ |->
                      [@[i] EXCEPT !.Allowlists =
                          [j \in DOMAIN @ |-> Retarget(@[j], from, to)]]]]

AllowlistsFor(cfg, ruleID) ==
    {cfg.Allowlists[i] : i \in {i \in 1..Len(cfg.Allowlists) :
                                   AppliesTo(cfg.Allowlists[i], ruleID)}}
    \cup UNION {Range(rule.Allowlists) : rule \in {r \in RulesOf(cfg) : r.ID = ruleID}}

C21_SnippetHoldsMatch ==
    (last.op = "getCodeSnippet" /\ Occurs(last.content, last.match)) =>
        Occurs(last.result, Trimmed(last.match))

(***************************************************************************)
(* The duplicate key and the allowlist check.                              *)
(***************************************************************************)
\* the candidate passes the entropy gate of its rule
PassesGate(rule, c) == rule.Entropy = 0 \/ calculateEntropy(c.secret) >= rule.Entropy

\* a Finding of the call has the key of the rule and the secret, but is of
\* another rule or another secret
KeyTakenByOther(rule, secret) ==
    \E i \in 1..Len(NewSegment) :
        /\ MatchKey(NewSegment[i].RuleID, NewSegment[i].File, NewSegment[i].Secret)
               = MatchKey(rule.ID, last.url, secret)
        /\ ~(NewSegment[i].RuleID = rule.ID /\ NewSegment[i].Secret = secret)

\* C22: a candidate dropped by the allowlist check does not record its key:
\* when a later match of the same rule has the same secret and a full match
\* that is not allowlisted, the call appends a Finding for that secret.
C22_SuppressedKeepsKeyFree ==
    last.op = "scan" =>
        \A rule \in RulesOf(config) :
            Extracts(config, rule, last.content) =>
                \A c, d \in CandidatesOf(rule, last.content) :
                    (/\ c.offset < d.offset
                     /\ c.secret = d.secret
                     /\ PassesGate(rule, d)
                     /\ Suppressed(config, rule, c)
                     /\ ~Suppressed(config, rule, d)) =>
                        \/ SegmentFindings(rule.ID, d.secret) # {}
                        \/ KeyTakenByOther(rule, d.secret)

\* the first match with a secret is allowlisted, a later match with the
\* same secret and another text is not, and the Finding carries the text
\* of the later match
C22_Witness ==
    /\ last.op = "scan"
    /\ \E rule \in RulesOf(config) :
           /\ Extracts(config, rule, last.content)
           /\ \E c, d \in CandidatesOf(rule, last.content) :
                  /\ c.offset < d.offset
                  /\ c.secret = d.secret
                  /\ c.match # d.match
                  /\ Suppressed(config, rule, c)
                  /\ ~Suppressed(config, rule, d)
                  /\ \A e \in CandidatesOf(rule, last.content) :
                         e.secret = c.secret => e.offset >= c.offset
                  /\ \E i \in SegmentFindings(rule.ID, d.secret) :
                         NewSegment[i].Context = d.match

(***************************************************************************)
(* What a CheckFileForSecrets call leaves alone.                           *)
(***************************************************************************)
\* the call returns before the scan: the URL does not end in ".js" or holds
\* a third-party domain, the request, the fetch or the read fails, or the
\* content type is neither javascript nor text/plain
ReturnsEarly(f) ==
    \/ ~(Len(f.url) >= 3 /\ SubSeq(f.url, Len(f.url) - 2, Len(f.url)) = <<".", "j", "s">>)
    \/ \E i \in 1..Len(thirdPartyDomains) : Occurs(f.url, thirdPartyDomains[i])
    \/ f.outcome \in {"requestError", "fetchError", "readError"}
    \/ /\ ~Occurs(f.contentType, <<"j","a","v","a","s","c","r","i","p","t">>)
       /\ ~Occurs(f.contentType, <<"t","e","x","t","/","p","l","a","i","n">>)

\* C23: every CheckFileForSecrets call leaves config, headers and cookies
\* unchanged and keeps the findings collected before as a prefix of the
\* list; a call that returns early leaves the list unchanged.
C23_FrameOfCheckFileForSecrets ==
    [][(ncalls' = ncalls + 1 /\ last'.op \in {"skip", "scan"}) =>
           /\ config' = config /\ headers' = headers /\ cookies' = cookies
           /\ Len(findings') >= Len(findings)
           /\ SubSeq(findings', 1, Len(findings)) = findings
           /\ (last'.op = "skip" \/ ReturnsEarly(last')) => findings' = findings]_vars

\* a call returned early after two files were scanned with headers and
\* cookies set, and the findings of both files are still in the list
C23_Witness ==
    /\ last.op = "skip"
    /\ headers # <<>> /\ cookies # <<>>
    /\ findings = last.before
    /\ \E i, j \in 1..Len(findings) : i < j /\ findings[i].File # findings[j].File

====
